---- MODULE Spec2Model ----
(***************************************************************************)
(* Model of insta_mukuu_bot.py: the poll loop (main_loop), one inbox pass  *)
(* (process_inbox), the eligibility decision (is_group_thread,             *)
(* thread_contains_mention), the completion helper (ask_mukuu) and the     *)
(* persisted id set (load_processed / save_processed).                     *)
(*                                                                         *)
(* Strings are sequences of one-character strings.  A falsy / absent       *)
(* Python value (None, "", 0, a missing key) is 0 for identifiers and      *)
(* counts and <<>> for strings and lists.                                  *)
(***************************************************************************)
EXTENDS Integers, Sequences, FiniteSets, TLC

(* ------------------------------ bounds -------------------------------- *)

\* longest text drawn for the eligibility decision checked on its own
MaxLen == 3
\* restarts of the script that are followed
MaxRestarts == 1
\* largest id of the sets saved and loaded on their own
MaxId == 3

(* ------------------------------ strings ------------------------------- *)

\* str.lower() on one character
LowerChar(c) ==
    CASE c = "M" -> "m"
      [] c = "U" -> "u"
      [] c = "A" -> "a"
      [] OTHER -> c

\* str.lower()
Lower(s) == [i \in 1..Len(s) |-> LowerChar(s[i])]

\* Python's `sub in s` for strings
StrIn(sub, s) ==
    \E i \in 0..(Len(s) - Len(sub)) : SubSeq(s, i + 1, i + Len(sub)) = sub

\* str.startswith
StartsWith(s, p) == Len(s) >= Len(p) /\ SubSeq(s, 1, Len(p)) = p

IsSpace(c) == c = " "

\* str.strip(): drop leading and trailing whitespace
RECURSIVE LStrip(_)
LStrip(s) == IF s # <<>> /\ IsSpace(Head(s)) THEN LStrip(Tail(s)) ELSE s

RECURSIVE RStrip(_)
RStrip(s) ==
    IF s # <<>> /\ IsSpace(s[Len(s)]) THEN RStrip(SubSeq(s, 1, Len(s) - 1)) ELSE s

Strip(s) == RStrip(LStrip(s))

\* `a or b` on identifiers and counts (0 is falsy)
OrElse(a, b) == IF a # 0 THEN a ELSE b

\* `a or b` on strings and lists (empty is falsy)
OrElseSeq(a, b) == IF a # <<>> THEN a ELSE b

(* --------------------------- configuration ---------------------------- *)

\* BOT_USERNAME, read from the environment, without the @
BOT_USERNAME == <<"M", "u">>

\* SYSTEM_PROMPT, the fixed persona instruction
SYSTEM_PROMPT == <<"P">>

(* ------------------- persisted ids: PROCESSED_FILE -------------------- *)

\* list(s): the elements of a set as a list, here in ascending order
RECURSIVE SetToList(_)
SetToList(s) ==
    IF s = {} THEN <<>>
    ELSE LET m == CHOOSE x \in s : \A y \in s : x <= y
         IN  <<m>> \o SetToList(s \ {m})

\* set(l): the elements of a list
ListToSet(l) == {l[i] : i \in 1..Len(l)}

\* The file: whether it exists, the list elements written to it, and whether
\* the JSON text is complete (a truncated or half-written file is not).
NoFile == [exists |-> FALSE, data |-> <<>>, complete |-> FALSE]

\* open(PROCESSED_FILE, "w"): the file is created or truncated
OpenForWrite(f) == [exists |-> TRUE, data |-> <<>>, complete |-> FALSE]

\* json.dump(list(s), f) followed by the close of the with-block
Dump(f, s) == [exists |-> TRUE, data |-> SetToList(s), complete |-> TRUE]

\* json.dump interrupted after k list elements: the JSON text is not closed
Partial(s, k) ==
    [exists |-> TRUE, data |-> SubSeq(SetToList(s), 1, k), complete |-> FALSE]

\* load_processed(): set(json.load(f)), and set() on any exception
\* (variant: whatever list elements the file holds are returned)
load_processedNoCatch(f) == ListToSet(f.data)
load_processed(f) ==
    IF f.exists /\ f.complete THEN ListToSet(f.data) ELSE {}

(* ------------------------ completion provider ------------------------- *)

ErrorPrefix == <<"[", "E", "R", "R", "O", "R">>
ApiPrefix == <<"[", "A", "P", "I">>

\* What requests.post and the body can do.  kind "transport": the call raises
\* (timeout, connection error); otherwise an HTTP response with a status, its
\* raw text, and either a well-formed body carrying content or a malformed one.
RespTransport ==
    [kind |-> "transport", status |-> <<>>, text |-> <<"t", "o">>,
     wellformed |-> FALSE, content |-> <<>>]
RespStatus ==
    [kind |-> "http", status |-> <<"5", "0", "0">>, text |-> <<"n", "o">>,
     wellformed |-> FALSE, content |-> <<>>]
RespMalformed ==
    [kind |-> "http", status |-> <<"2", "0", "0">>, text |-> <<"{", "}">>,
     wellformed |-> FALSE, content |-> <<>>]
RespOk(c) ==
    [kind |-> "http", status |-> <<"2", "0", "0">>, text |-> <<"{", "}">>,
     wellformed |-> TRUE, content |-> c]

\* contents a status-200 completion may carry
Contents ==
    { <<" ", "o", "k", " ">>,
      <<"[", "A", "P", "I", "!">>,
      <<" ">> }

Responses == {RespTransport, RespStatus, RespMalformed} \cup {RespOk(c) : c \in Contents}

\* the provider reported a failure (transport, non-200 status or malformed body)
IsProviderError(resp) ==
    resp.kind = "transport" \/ resp.status # <<"2", "0", "0">> \/ ~resp.wellformed

\* the two-message, single-turn prompt built for one item
build_messages(text) ==
    << [role |-> "system", content |-> SYSTEM_PROMPT],
       [role |-> "user", content |-> text] >>

\* ask_mukuu(messages), given what the provider does with the request
\* (variant: a failure is returned as its bare detail)
ask_mukuuBare(messages, resp) ==
    IF resp.kind = "transport" THEN resp.text
    ELSE IF resp.status # <<"2", "0", "0">> THEN resp.text
    ELSE IF ~resp.wellformed THEN resp.text
    ELSE Strip(resp.content)
ask_mukuu(messages, resp) ==
    IF resp.kind = "transport"
    THEN ErrorPrefix \o <<"]", " ">> \o resp.text
    ELSE IF resp.status # <<"2", "0", "0">>
    THEN ApiPrefix \o <<" ">> \o resp.status \o <<"]", " ">> \o resp.text
    ELSE IF ~resp.wellformed
    THEN ErrorPrefix \o <<"]", " ">> \o resp.text
    ELSE Strip(resp.content)

\* reply.startswith("[API") or reply.startswith("[ERROR")
\* (variant: only the "[API" marker is looked for)
IsErrorReplyApiOnly(reply) == StartsWith(reply, ApiPrefix)
IsErrorReply(reply) == StartsWith(reply, ApiPrefix) \/ StartsWith(reply, ErrorPrefix)

(* ---------------------------- eligibility ----------------------------- *)

\* is_group_thread(thread).  A plain dict exposes no attributes, so getattr
\* finds neither participants_count nor users and the thread_type key decides.
is_group_thread(thread) ==
    IF ~thread.is_dict /\ thread.participants_count # 0
    THEN thread.participants_count > 2
    ELSE IF ~thread.is_dict /\ thread.users # 0
    THEN thread.users > 2
    ELSE thread.thread_type = "group"

\* (variant: only the @-form counts as a mention)
thread_contains_mentionAtOnly(text) ==
    IF text = <<>> THEN FALSE
    ELSE StrIn(<<"@">> \o Lower(BOT_USERNAME), Lower(text))
\* thread_contains_mention(text)
thread_contains_mention(text) ==
    IF text = <<>> THEN FALSE
    ELSE LET low == Lower(text)
         IN  StrIn(<<"@">> \o Lower(BOT_USERNAME), low) \/ StrIn(Lower(BOT_USERNAME), low)

\* should_reply as process_inbox decides it for one item
\* (variant: every item is answered)
should_replyAlways(thread, text) == TRUE
should_reply(thread, text) ==
    IF is_group_thread(thread) THEN thread_contains_mention(text) ELSE TRUE

(* -------------------------- item and thread --------------------------- *)

\* msg_id = item.get("item_id") or item.get("id") or item.get("pk")
msg_id_of(item) == OrElse(item.item_id, OrElse(item.id, item.pk))

\* text = item.get("text") or item.get("message") or ""
text_of(item) == OrElseSeq(item.text, OrElseSeq(item.message, <<>>))

\* thread_id = thread.get("thread_id") or thread.get("id") or thread.get("pk")
thread_id_of(thread) == OrElse(thread.thread_id, OrElse(thread.id, thread.pk))

\* The items process_inbox iterates for a thread, or "abort" when the
\* iteration itself raises.  cl.direct_thread either raises, returns an object
\* whose items attribute is a list, or returns a dict: for a dict
\* getattr(full, "items", None) is the bound method dict.items, which is
\* truthy, so the for-loop over it raises TypeError outside the try.  An
\* object with an empty items list has no .get and lands in the except branch.
FallbackItems(thread) == IF thread.is_dict THEN thread.items ELSE <<>>
\* (variant: a thread whose fetch fails is skipped)
fetch_itemsSkip(thread) ==
    CASE thread.full.kind = "raise" -> [ok |-> TRUE, items |-> <<>>]
      [] thread.full.kind = "dict" -> [ok |-> FALSE, items |-> <<>>]
      [] OTHER ->
           IF thread.full.items # <<>>
           THEN [ok |-> TRUE, items |-> thread.full.items]
           ELSE [ok |-> TRUE, items |-> <<>>]
fetch_items(thread) ==
    CASE thread.full.kind = "raise" -> [ok |-> TRUE, items |-> FallbackItems(thread)]
      [] thread.full.kind = "dict" -> [ok |-> FALSE, items |-> <<>>]
      [] OTHER ->
           IF thread.full.items # <<>>
           THEN [ok |-> TRUE, items |-> thread.full.items]
           ELSE [ok |-> TRUE, items |-> FallbackItems(thread)]

(* ------------------ what the inbox provider can hold ------------------ *)

\* An item is a mapping, as the item.get calls of lines 140-150 require, and
\* carries a user_id, so line 145 never reaches item.get("user", {}).get("pk").
Item(iid, id, pk, text, message) ==
    [item_id |-> iid, id |-> id, pk |-> pk, text |-> text, message |-> message,
     user_id |-> 7]

\* a direct message carrying item_id and text
ItemHello == Item(1, 0, 0, <<"h", "i">>, <<>>)
\* a direct message identified by id only, its text under "message"
ItemLegacy == Item(0, 2, 0, <<>>, <<"y", "o">>)
\* a group message that does not name the bot
ItemChat == Item(3, 0, 0, <<"y", "o">>, <<>>)
\* a group message without any identifier, naming the bot
ItemNoId == Item(0, 0, 0, <<"@", "m", "u">>, <<>>)
\* a group message naming the bot, identified by pk only
ItemMention == Item(0, 0, 4, <<"h", "i", " ", "@", "m", "U">>, <<>>)

\* the item identifiers of the provider's namespace
Ids == {msg_id_of(i) : i \in {ItemHello, ItemLegacy, ItemChat, ItemMention}}

DirectItems == <<ItemHello, ItemLegacy>>
GroupItems == <<ItemChat, ItemNoId, ItemMention>>

\* what cl.direct_thread does for a thread: kind and the items it carries
Full(kind, its) == [kind |-> kind, items |-> IF kind = "raise" THEN <<>> ELSE its]

\* a two-party conversation, a plain dict, of which n items exist so far;
\* the listing embeds its latest item
DirectThread(kind, n) ==
    [thread_id |-> 1, id |-> 0, pk |-> 0, is_dict |-> TRUE,
     participants_count |-> 2, users |-> 0, thread_type |-> "private",
     items |-> SubSeq(DirectItems, n, n),
     full |-> Full(kind, SubSeq(DirectItems, 1, n))]

\* a five-party conversation: a plain dict with thread_type "group", or an
\* attribute-bearing mapping that reports participants_count
GroupThread(kind, asDict) ==
    [thread_id |-> 0, id |-> 2, pk |-> 0, is_dict |-> asDict,
     participants_count |-> 5, users |-> 0,
     thread_type |-> IF asDict THEN "group" ELSE "",
     items |-> SubSeq(GroupItems, Len(GroupItems), Len(GroupItems)),
     full |-> Full(kind, GroupItems)]

\* a listing entry without thread_id, id or pk
NoIdThread ==
    [thread_id |-> 0, id |-> 0, pk |-> 0, is_dict |-> TRUE,
     participants_count |-> 2, users |-> 0, thread_type |-> "private",
     items |-> <<ItemHello>>,
     full |-> Full("obj", <<ItemHello>>)]

DirectViews ==
    {<<DirectThread("obj", n)>> : n \in 1..Len(DirectItems)}
        \cup {<<DirectThread("raise", Len(DirectItems))>>}
GroupViews ==
    {<<>>} \cup {<<GroupThread(k, d)>> : k \in {"obj", "raise"}, d \in BOOLEAN}
           \cup {<<GroupThread("dict", TRUE)>>}

\* the thread lists a scan can yield
ThreadLists == {<<NoIdThread>> \o d \o g : d \in DirectViews, g \in GroupViews}

\* The value cl.direct_inbox() returns.  shape "nested": {"inbox": {"threads":
\* [...]}}; "flat": {"inbox": None, "threads": [...]}; "bare": {"threads":
\* [...]} with no "inbox" key; "object": not a dict.
Inbox(shape, ts) == [shape |-> shape, threads |-> ts]

InboxShapes == {"nested", "flat", "bare", "object"}

\* threads = inbox.get("inbox", {}).get("threads", []), with its except branch
threads_of(inbox) ==
    CASE inbox.shape = "nested" -> inbox.threads
      [] inbox.shape = "flat" -> inbox.threads
      [] inbox.shape = "bare" -> <<>>
      [] OTHER -> <<>>

(* ------------------------------- state -------------------------------- *)

VARIABLES
    pc,          \* where the process is: "poll", "thread", "item", "gen", "send",
                 \* "mark", "save", "dump", "sleep", or "down" (not running)
    processed,   \* the global set of handled message ids
    file,        \* PROCESSED_FILE on disk
    threads,     \* the thread list of the latest scan
    tIdx,        \* position of the for-loop over threads
    items,       \* the items iterated for the current thread
    iIdx,        \* position of the for-loop over items
    reply,       \* what ask_mukuu returned for the current item
    \* the calls made for the current item
    lastGen,     \* "none", or how the completion call ended: "error", "ok"
    lastSend,    \* "none", or how cl.direct_send ended: "ok", "fail"
    lastReq,     \* the messages handed to ask_mukuu, <<>> before the call
    lastResp,    \* what the provider did with them, NoResp before the call
    sentText,    \* the text handed to cl.direct_send, <<>> before the call
    \* history of the current process run
    cycle,       \* process_inbox calls started: 0, 1, or 2 for two or more
    fresh,       \* the run started with an empty processed set
    evalCalls,   \* id -> number of eligibility decisions taken for it
    genCalls,    \* id -> number of ask_mukuu calls made for it
    sendCalls,   \* id -> number of cl.direct_send calls made for it
    declined,    \* ids found not eligible
    cycStatus,   \* latest cycle: "none", "running", "done", "scanfail", "aborted"
    replay,      \* second cycle of a fresh run, same scan as a completed first one
    \* history across runs
    savedEver,   \* ids written by some completed save_processed
    restarts,    \* number of times the script was started again
    stoppedAt,   \* pc at which the process stopped, "none" while it runs
    \* the eligibility decision taken on its own
    cThread, cText, cOut,
    \* the persisted id set taken on its own
    sSet,        \* the set handed to save_processed
    sFile,       \* the file it is written to and loaded from
    sOut         \* what load_processed returned

progVars == <<pc, processed, file, threads, tIdx, items, iIdx, reply>>
itemVars == <<lastGen, lastSend, lastReq, lastResp, sentText>>
runVars == <<cycle, fresh, evalCalls, genCalls, sendCalls, declined, cycStatus, replay>>
diskVars == <<savedEver, restarts, stoppedAt>>
clsVars == <<cThread, cText, cOut>>
stoVars == <<sSet, sFile, sOut>>
vars == <<progVars, itemVars, runVars, diskVars, clsVars, stoVars>>

\* no completion call made yet for the current item
NoResp ==
    [kind |-> "none", status |-> <<>>, text |-> <<>>,
     wellformed |-> FALSE, content |-> <<>>]

\* load_processed not called yet
NoOut == [stage |-> "start", done |-> FALSE, ids |-> {}]

Zero == [i \in Ids |-> 0]
Bump(f, i) == [f EXCEPT ![i] = @ + 1]

\* the files a first start can find: none, an unparseable one, an empty list,
\* the list a previous run left
InitFiles == {NoFile, OpenForWrite(NoFile), Dump(NoFile, {}), Dump(NoFile, {msg_id_of(ItemHello)})}

\* module level of the script: processed = load_processed(), then main_loop()
Started(f) ==
    /\ pc = "poll"
    /\ processed = load_processed(f)
    /\ threads = <<>> /\ tIdx = 0 /\ items = <<>> /\ iIdx = 0 /\ reply = <<>>
    /\ lastGen = "none" /\ lastSend = "none"
    /\ lastReq = <<>> /\ lastResp = NoResp /\ sentText = <<>>
    /\ cycle = 0
    /\ fresh = (load_processed(f) = {})
    /\ evalCalls = Zero /\ genCalls = Zero /\ sendCalls = Zero
    /\ declined = {}
    /\ cycStatus = "none" /\ replay = FALSE

Init ==
    /\ file \in InitFiles
    /\ Started(file)
    /\ savedEver = load_processed(file)
    /\ restarts = 0
    /\ stoppedAt = "none"
    /\ cThread = NoIdThread /\ cText = <<>> /\ cOut = "idle"
    /\ sSet = {} /\ sFile = NoFile /\ sOut = NoOut

(* ------------------------------ main_loop ----------------------------- *)

\* where an exception escaping process_inbox leaves main_loop: the except
\* clause prints it and the loop goes on to time.sleep(POLL_SECONDS)
\* (variants: the exception ends the process; the loop retries without sleeping)
on_exceptionExit == "down"
on_exceptionRetry == "poll"
on_exception == "sleep"

\* an exception escapes process_inbox
Raise(status) ==
    /\ pc' = on_exception
    /\ cycStatus' = status

NextCycle == IF cycle < 2 THEN cycle + 1 ELSE cycle

\* cl.direct_inbox() returns; the thread list is taken out of it
Scan ==
    /\ pc = "poll"
    /\ \E shape \in InboxShapes, ts \in ThreadLists :
         LET new == threads_of(Inbox(shape, ts))
         IN  /\ threads' = new
             /\ replay' = (fresh /\ cycle = 1 /\ cycStatus = "done" /\ new = threads)
    /\ pc' = "thread" /\ tIdx' = 1
    /\ cycle' = NextCycle
    /\ cycStatus' = "running"
    /\ UNCHANGED <<processed, file, items, iIdx, reply, itemVars>>
    /\ UNCHANGED <<fresh, evalCalls, genCalls, sendCalls, declined>>
    /\ UNCHANGED <<diskVars, clsVars, stoVars>>

\* cl.direct_inbox() raises
ScanFail ==
    /\ pc = "poll"
    /\ Raise("scanfail")
    /\ cycle' = NextCycle
    /\ replay' = FALSE
    /\ UNCHANGED <<processed, file, threads, tIdx, items, iIdx, reply, itemVars>>
    /\ UNCHANGED <<fresh, evalCalls, genCalls, sendCalls, declined>>
    /\ UNCHANGED <<diskVars, clsVars, stoVars>>

\* time.sleep(POLL_SECONDS) returns and the while-loop starts over
Wake ==
    /\ pc = "sleep"
    /\ pc' = "poll"
    /\ UNCHANGED <<processed, file, threads, tIdx, items, iIdx, reply, itemVars>>
    /\ UNCHANGED <<runVars, diskVars, clsVars, stoVars>>

(* ---------------------------- process_inbox --------------------------- *)

curThread == threads[tIdx]
curItem == items[iIdx]
curId == msg_id_of(curItem)

histFrame == UNCHANGED <<cycle, fresh, replay, diskVars, clsVars, stoVars>>

\* the for-loop over threads is exhausted: process_inbox returns
ThreadsDone ==
    /\ pc = "thread" /\ tIdx > Len(threads)
    /\ pc' = "sleep"
    /\ cycStatus' = "done"
    /\ UNCHANGED <<processed, file, threads, tIdx, items, iIdx, reply, itemVars>>
    /\ UNCHANGED <<evalCalls, genCalls, sendCalls, declined>>
    /\ histFrame

\* if not thread_id: continue
ThreadSkip ==
    /\ pc = "thread" /\ tIdx <= Len(threads)
    /\ thread_id_of(curThread) = 0
    /\ tIdx' = tIdx + 1
    /\ UNCHANGED <<pc, processed, file, threads, items, iIdx, reply, itemVars>>
    /\ UNCHANGED <<evalCalls, genCalls, sendCalls, declined, cycStatus>>
    /\ histFrame

\* cl.direct_thread(thread_id) and the choice of the items to iterate
ThreadFetch ==
    /\ pc = "thread" /\ tIdx <= Len(threads)
    /\ thread_id_of(curThread) # 0
    /\ fetch_items(curThread).ok
    /\ items' = fetch_items(curThread).items
    /\ iIdx' = 1
    /\ pc' = "item"
    /\ UNCHANGED <<processed, file, threads, tIdx, reply, itemVars>>
    /\ UNCHANGED <<evalCalls, genCalls, sendCalls, declined, cycStatus>>
    /\ histFrame

\* the for-loop over the items raises
ThreadFetchAbort ==
    /\ pc = "thread" /\ tIdx <= Len(threads)
    /\ thread_id_of(curThread) # 0
    /\ ~fetch_items(curThread).ok
    /\ Raise("aborted")
    /\ UNCHANGED <<processed, file, threads, tIdx, items, iIdx, reply, itemVars>>
    /\ UNCHANGED <<evalCalls, genCalls, sendCalls, declined>>
    /\ histFrame

\* the for-loop over items is exhausted: on to save_processed(processed)
ItemsDone ==
    /\ pc = "item" /\ iIdx > Len(items)
    /\ pc' = "save"
    /\ UNCHANGED <<processed, file, threads, tIdx, items, iIdx, reply, itemVars>>
    /\ UNCHANGED <<evalCalls, genCalls, sendCalls, declined, cycStatus>>
    /\ histFrame

\* if not msg_id or msg_id in processed: continue
\* (variants: only a missing id is skipped; only a seen id is skipped)
skip_itemNoDedup(id) == id = 0
skip_itemIdless(id) == id \in processed
skip_item(id) == id = 0 \/ id \in processed

ItemSkip ==
    /\ pc = "item" /\ iIdx <= Len(items)
    /\ skip_item(curId)
    /\ iIdx' = iIdx + 1
    /\ UNCHANGED <<pc, processed, file, threads, tIdx, items, reply, itemVars>>
    /\ UNCHANGED <<evalCalls, genCalls, sendCalls, declined, cycStatus>>
    /\ histFrame

\* group = is_group_thread(thread); should_reply is set; for an eligible item
\* the random pause is taken
ItemClassify ==
    /\ pc = "item" /\ iIdx <= Len(items)
    /\ ~skip_item(curId)
    /\ LET yes == should_reply(curThread, text_of(curItem))
       IN  /\ pc' = IF yes THEN "gen" ELSE "mark"
           /\ declined' = IF yes THEN declined ELSE declined \cup {curId}
    /\ evalCalls' = Bump(evalCalls, curId)
    /\ UNCHANGED <<processed, file, threads, tIdx, items, iIdx, reply, itemVars>>
    /\ UNCHANGED <<genCalls, sendCalls, cycStatus>>
    /\ histFrame

\* reply = ask_mukuu(messages)
Generate ==
    /\ pc = "gen"
    /\ \E resp \in Responses :
         /\ reply' = ask_mukuu(build_messages(text_of(curItem)), resp)
         /\ lastGen' = IF IsProviderError(resp) THEN "error" ELSE "ok"
         /\ lastResp' = resp
    /\ lastReq' = build_messages(text_of(curItem))
    /\ pc' = "send"
    /\ genCalls' = Bump(genCalls, curId)
    /\ UNCHANGED <<processed, file, threads, tIdx, items, iIdx, lastSend, sentText>>
    /\ UNCHANGED <<evalCalls, sendCalls, declined, cycStatus>>
    /\ histFrame

\* the reply starts with "[API" or "[ERROR": it is printed, nothing is sent
SkipReply ==
    /\ pc = "send"
    /\ IsErrorReply(reply)
    /\ pc' = "mark"
    /\ UNCHANGED <<processed, file, threads, tIdx, items, iIdx, reply, itemVars>>
    /\ UNCHANGED <<evalCalls, genCalls, sendCalls, declined, cycStatus>>
    /\ histFrame

\* cl.direct_send(reply, thread_id) returns
SendOk ==
    /\ pc = "send"
    /\ ~IsErrorReply(reply)
    /\ pc' = "mark"
    /\ lastSend' = "ok"
    /\ sentText' = reply
    /\ sendCalls' = Bump(sendCalls, curId)
    /\ UNCHANGED <<processed, file, threads, tIdx, items, iIdx, reply>>
    /\ UNCHANGED <<lastGen, lastReq, lastResp>>
    /\ UNCHANGED <<evalCalls, genCalls, declined, cycStatus>>
    /\ histFrame

\* cl.direct_send(reply, thread_id) raises; the except clause prints it
SendFail ==
    /\ pc = "send"
    /\ ~IsErrorReply(reply)
    /\ pc' = "mark"
    /\ lastSend' = "fail"
    /\ sentText' = reply
    /\ sendCalls' = Bump(sendCalls, curId)
    /\ UNCHANGED <<processed, file, threads, tIdx, items, iIdx, reply>>
    /\ UNCHANGED <<lastGen, lastReq, lastResp>>
    /\ UNCHANGED <<evalCalls, genCalls, declined, cycStatus>>
    /\ histFrame

\* processed.add(msg_id)
\* (variants: the id is not recorded; it is recorded unless the send failed)
add_processedNot(p, id) == p
add_processedIfSent(p, id) == IF lastSend = "fail" THEN p ELSE p \cup {id}
add_processed(p, id) == p \cup {id}

Mark ==
    /\ pc = "mark"
    /\ processed' = add_processed(processed, curId)
    /\ iIdx' = iIdx + 1
    /\ pc' = "item"
    /\ reply' = <<>>
    /\ lastGen' = "none" /\ lastSend' = "none"
    /\ lastReq' = <<>> /\ lastResp' = NoResp /\ sentText' = <<>>
    /\ UNCHANGED <<file, threads, tIdx, items>>
    /\ UNCHANGED <<evalCalls, genCalls, sendCalls, declined, cycStatus>>
    /\ histFrame

(* --------------------------- save_processed --------------------------- *)

\* open(PROCESSED_FILE, "w") succeeds: the file is truncated
SaveOpen ==
    /\ pc = "save"
    /\ file' = OpenForWrite(file)
    /\ pc' = "dump"
    /\ UNCHANGED <<processed, threads, tIdx, items, iIdx, reply, itemVars>>
    /\ UNCHANGED <<runVars, diskVars, clsVars, stoVars>>

\* open(PROCESSED_FILE, "w") raises: the file is left as it was
SaveOpenFail ==
    /\ pc = "save"
    /\ Raise("aborted")
    /\ UNCHANGED <<processed, file, threads, tIdx, items, iIdx, reply, itemVars>>
    /\ UNCHANGED <<evalCalls, genCalls, sendCalls, declined>>
    /\ histFrame

\* json.dump(list(s), f) and the close succeed; back to the for-loop over threads
SaveDump ==
    /\ pc = "dump"
    /\ file' = Dump(file, processed)
    /\ savedEver' = savedEver \cup load_processed(Dump(file, processed))
    /\ tIdx' = tIdx + 1
    /\ pc' = "thread"
    /\ UNCHANGED <<processed, threads, items, iIdx, reply, itemVars>>
    /\ UNCHANGED <<runVars, restarts, stoppedAt, clsVars, stoVars>>

\* the write raises (disk full, I/O error): the truncated file stays
SaveDumpFail ==
    /\ pc = "dump"
    /\ Raise("aborted")
    /\ UNCHANGED <<processed, file, threads, tIdx, items, iIdx, reply, itemVars>>
    /\ UNCHANGED <<evalCalls, genCalls, sendCalls, declined>>
    /\ histFrame

Next ==
    \/ Scan \/ ScanFail \/ Wake
    \/ ThreadsDone \/ ThreadSkip \/ ThreadFetch \/ ThreadFetchAbort
    \/ ItemsDone \/ ItemSkip \/ ItemClassify
    \/ Generate \/ SkipReply \/ SendOk \/ SendFail \/ Mark
    \/ SaveOpen \/ SaveOpenFail \/ SaveDump \/ SaveDumpFail

\* one run of the script
Spec == Init /\ [][Next]_vars

(* ------------------------- stopping and starting ---------------------- *)

\* the process is killed or crashes; only the file survives
Crash ==
    /\ pc # "down"
    /\ pc' = "down"
    /\ processed' = {}
    /\ threads' = <<>> /\ tIdx' = 0 /\ items' = <<>> /\ iIdx' = 0 /\ reply' = <<>>
    /\ lastGen' = "none" /\ lastSend' = "none"
    /\ lastReq' = <<>> /\ lastResp' = NoResp /\ sentText' = <<>>
    /\ cycle' = 0 /\ fresh' = FALSE
    /\ evalCalls' = Zero /\ genCalls' = Zero /\ sendCalls' = Zero
    /\ declined' = {}
    /\ cycStatus' = "none" /\ replay' = FALSE
    /\ stoppedAt' = pc
    /\ UNCHANGED <<file, savedEver, restarts, clsVars, stoVars>>

\* the script is started again
Restart ==
    /\ pc = "down"
    /\ restarts < MaxRestarts
    /\ pc' = "poll"
    /\ processed' = load_processed(file)
    /\ threads' = <<>> /\ tIdx' = 0 /\ items' = <<>> /\ iIdx' = 0 /\ reply' = <<>>
    /\ lastGen' = "none" /\ lastSend' = "none"
    /\ lastReq' = <<>> /\ lastResp' = NoResp /\ sentText' = <<>>
    /\ cycle' = 0
    /\ fresh' = (load_processed(file) = {})
    /\ evalCalls' = Zero /\ genCalls' = Zero /\ sendCalls' = Zero
    /\ declined' = {}
    /\ cycStatus' = "none" /\ replay' = FALSE
    /\ restarts' = restarts + 1
    /\ stoppedAt' = "none"
    /\ UNCHANGED <<file, savedEver, clsVars, stoVars>>

NextCrash == Next \/ Crash \/ Restart

\* runs of the script, each ended by a stop and followed by a fresh start
SpecCrash == Init /\ [][NextCrash]_vars

(* ------------------ the eligibility decision on its own --------------- *)

Alphabet == {"@", "m", "M", "u", "U", "x"}

\* every text of at most MaxLen characters
Texts == UNION {[1..k -> Alphabet] : k \in 0..MaxLen}

\* what is_group_thread reads of a thread
ThreadShapes ==
    [is_dict : BOOLEAN, participants_count : {0, 2, 3}, users : {0, 1, 3},
     thread_type : {"group", "private"}]

InitClassify ==
    /\ file = NoFile
    /\ Started(file)
    /\ savedEver = {}
    /\ restarts = 0
    /\ stoppedAt = "none"
    /\ sSet = {} /\ sFile = NoFile /\ sOut = NoOut
    /\ cThread \in ThreadShapes /\ cText \in Texts /\ cOut = "idle"

\* lines 154-162 of process_inbox for one thread and one item text
Classify ==
    /\ cOut = "idle"
    /\ cOut' = IF should_reply(cThread, cText) THEN "reply" ELSE "skip"
    /\ UNCHANGED <<progVars, itemVars, runVars, diskVars, cThread, cText, stoVars>>

NextClassify == Classify

SpecClassify == InitClassify /\ [][NextClassify]_vars

(* ------------- save_processed and load_processed on their own --------- *)

\* the ids a stored set may hold
StoreIds == 1..MaxId

\* what PROCESSED_FILE may be before the call: missing, cut short inside the
\* JSON text, or complete
StoreFiles ==
    {NoFile}
      \cup {Partial(s, k) : <<s, k>> \in {<<s, k>> \in (SUBSET StoreIds) \X (0..MaxId) :
                                             k <= Cardinality(s)}}
      \cup {Dump(NoFile, s) : s \in SUBSET StoreIds}

InitStore ==
    /\ file = NoFile
    /\ Started(file)
    /\ savedEver = {}
    /\ restarts = 0
    /\ stoppedAt = "none"
    /\ cThread = NoIdThread /\ cText = <<>> /\ cOut = "idle"
    /\ sSet \in SUBSET StoreIds
    /\ sFile \in StoreFiles
    /\ sOut = NoOut

\* save_processed(sSet) runs to its end
StoreSave ==
    /\ sOut.stage = "start" /\ ~sOut.done
    /\ sFile' = Dump(OpenForWrite(sFile), sSet)
    /\ sOut' = [sOut EXCEPT !.stage = "saved"]
    /\ UNCHANGED <<progVars, itemVars, runVars, diskVars, clsVars, sSet>>

\* save_processed(sSet) is cut short inside json.dump
StoreSaveCut ==
    /\ sOut.stage = "start" /\ ~sOut.done
    /\ \E k \in 0..Cardinality(sSet) : sFile' = Partial(sSet, k)
    /\ sOut' = [sOut EXCEPT !.stage = "cut"]
    /\ UNCHANGED <<progVars, itemVars, runVars, diskVars, clsVars, sSet>>

\* load_processed() is called, on the file as it then is
StoreLoad ==
    /\ ~sOut.done
    /\ sOut' = [sOut EXCEPT !.done = TRUE, !.ids = load_processed(sFile)]
    /\ UNCHANGED <<progVars, itemVars, runVars, diskVars, clsVars, sSet, sFile>>

NextStore == StoreSave \/ StoreSaveCut \/ StoreLoad

SpecStore == InitStore /\ [][NextStore]_vars

\* the loop with every step of the sequential program eventually taken
SpecLive == Init /\ [][Next]_vars /\ WF_vars(Next)

(* ------------------------------- claims ------------------------------- *)

\* the identified items process_inbox iterates for the scan ts, each with its thread
ScannedItems(ts) ==
    { <<ts[t], fetch_items(ts[t]).items[i]>> :
        <<t, i>> \in { <<t, i>> \in (1..Len(ts)) \X (1..3) :
                         /\ thread_id_of(ts[t]) # 0
                         /\ i <= Len(fetch_items(ts[t]).items)
                         /\ msg_id_of(fetch_items(ts[t]).items[i]) # 0 } }

\* C1: when a run that starts with an empty processed set completes a first
\* cycle and the second cycle's scan returns the same threads, the first cycle
\* has made exactly one completion call and at most one send call for every
\* eligible item (and none for an item that is not eligible), a reply the loop
\* accepts is sent exactly once, and the second cycle never gets to a
\* completion call, a send call or an addition to processed.
C1_Idempotence ==
    /\ (fresh /\ cycle = 1 /\ cycStatus = "done") =>
          \A p \in ScannedItems(threads) :
             LET id == msg_id_of(p[2])
             IN  IF should_reply(p[1], text_of(p[2]))
                 THEN genCalls[id] = 1 /\ sendCalls[id] <= 1 /\ id \in processed
                 ELSE genCalls[id] = 0 /\ sendCalls[id] = 0 /\ id \in processed
    /\ (pc = "mark" /\ lastGen = "ok" /\ ~IsErrorReply(reply)) =>
          (sendCalls[curId] = 1 /\ genCalls[curId] = 1)
    /\ replay => (pc \notin {"gen", "send", "mark"})

\* a replayed second cycle has run to its end after the first one sent a reply
C1_Witness ==
    /\ replay /\ cycle = 2 /\ cycStatus = "done" /\ pc = "sleep"
    /\ \E id \in Ids : sendCalls[id] = 1
    /\ \E id \in Ids : genCalls[id] = 1 /\ sendCalls[id] = 0

\* C2: within one run no message id is the subject of more than one
\* cl.direct_send call, whatever fails.
C2_NoDuplicateSend == \A id \in Ids : sendCalls[id] <= 1

\* an item replied to earlier is met again in a later cycle while no flush of
\* the run has completed
C2_Witness ==
    /\ pc = "item" /\ iIdx <= Len(items) /\ curId # 0
    /\ sendCalls[curId] = 1 /\ curId \in processed
    /\ cycle = 2 /\ ~file.complete /\ savedEver = {}

\* C3: after a stop and a new start the running process knows every id that a
\* completed save_processed has written.
C3_FlushedSurvives == (pc # "down") => (savedEver \subseteq processed)

\* C4: whatever step changes the file, load_processed then yields the set it
\* yielded before or the set being saved.
C4_AtomicSave ==
    [][load_processed(file') \in {load_processed(file), processed}]_vars


\* the identified items of a list
Identified(its) == {its[i] : i \in {j \in 1..Len(its) : msg_id_of(its[j]) # 0}}

\* C5: when the completion provider fails for an eligible unseen item, the
\* reply is an error string and no send call is made for the item, the item is
\* then added to processed and the loop goes on with the next item, and when
\* the loop over the conversation's items ends every identified item of it is
\* in processed.
C5_GenerationFailureIsolated ==
    /\ [](lastGen = "error" =>
            /\ pc \in {"send", "mark"}
            /\ IsErrorReply(reply)
            /\ lastSend = "none"
            /\ sendCalls[curId] = 0)
    /\ [][(lastGen = "error" /\ pc = "mark") =>
            (curId \in processed' /\ pc' = "item" /\ iIdx' = iIdx + 1
             /\ sendCalls' = sendCalls)]_vars
    /\ [](pc = "save" => \A it \in Identified(items) : msg_id_of(it) \in processed)

\* after a failed completion for the first item of a conversation the second
\* one has been replied to and the loop over the items has ended
C5_Witness ==
    /\ pc = "save" /\ items = DirectItems /\ cycle = 1 /\ fresh
    /\ genCalls[msg_id_of(ItemHello)] = 1 /\ sendCalls[msg_id_of(ItemHello)] = 0
    /\ sendCalls[msg_id_of(ItemLegacy)] = 1

WorldItems(thread) == IF thread_id_of(thread) = 1 THEN DirectItems ELSE GroupItems

RefContains(text) ==
    \E k \in 1..Len(text) :
       /\ k + Len(BOT_USERNAME) - 1 <= Len(text)
       /\ \A j \in 1..Len(BOT_USERNAME) :
             LowerChar(text[k + j - 1]) = LowerChar(BOT_USERNAME[j])

\* C7: the decision is to reply, for a group conversation, exactly when the
\* lower-cased text contains the lower-cased handle, and always for a direct
\* conversation.
C7_EligibilityIsReference ==
    (cOut # "idle") =>
       ((cOut = "reply") <=>
          (IF is_group_thread(cThread) THEN RefContains(cText) ELSE TRUE))

\* a group text naming the handle without the @ was found eligible
C7_Witness ==
    /\ cOut = "reply" /\ is_group_thread(cThread)
    /\ ~StrIn(<<"@">>, cText) /\ cText # Lower(cText)

\* C8: an item found not eligible gets no completion call and no send call, is
\* evaluated once only, and is in processed once its turn is over; nothing
\* that is not eligible reaches the completion or the send call.
C8_IneligibleMarkedOnce ==
    /\ \A id \in declined :
          /\ genCalls[id] = 0 /\ sendCalls[id] = 0 /\ evalCalls[id] = 1
          /\ (id \in processed \/ (pc = "mark" /\ curId = id))
    /\ (pc \in {"gen", "send"} /\ is_group_thread(curThread)) =>
          RefContains(text_of(curItem))
    /\ (pc = "mark" /\ is_group_thread(curThread)
          /\ ~RefContains(text_of(curItem))) => curId \in declined

\* the declined group item is met again in a later cycle and skipped
C8_Witness ==
    /\ pc = "item" /\ iIdx <= Len(items) /\ curItem = ItemChat
    /\ msg_id_of(ItemChat) \in declined /\ cycle = 2
    /\ msg_id_of(ItemChat) \in processed

\* C9: a cycle whose scan call raises goes straight to the poll sleep with
\* processed, the file and the call counts as they were.
C9_ScanFailureFrame ==
    [][(pc = "poll" /\ cycStatus' = "scanfail") =>
          /\ pc' = "sleep"
          /\ processed' = processed /\ file' = file
          /\ genCalls' = genCalls /\ sendCalls' = sendCalls
          /\ evalCalls' = evalCalls]_vars

\* the process sleeps after a failed scan, with ids in memory and on disk
C9_Witness ==
    /\ pc = "sleep" /\ cycStatus = "scanfail"
    /\ processed # {} /\ load_processed(file) = processed

\* C10: the loop never stops, and again and again it reaches the poll sleep and
\* again and again it starts another cycle, whatever fails.
C10_LoopStaysLive ==
    /\ [](pc # "down")
    /\ []<>(pc = "sleep")
    /\ []<>(pc = "poll")

\* the loop sleeps after a cycle cut short by a failed flush, with an earlier
\* cycle behind it
C10_Witness ==
    /\ pc = "sleep" /\ cycStatus = "aborted" /\ cycle = 2 /\ ~file.complete

\* C11: every text handed to cl.direct_send is the stripped content of a
\* well-formed status-200 response to the request built from the current
\* item's text, and it is never the error string ask_mukuu builds for a failed
\* call.
C11_NoErrorTextSent ==
    (lastSend # "none") =>
       /\ pc = "mark"
       /\ lastReq = build_messages(text_of(curItem))
       /\ lastResp.kind = "http"
       /\ lastResp.status = <<"2", "0", "0">>
       /\ lastResp.wellformed
       /\ sentText = Strip(lastResp.content)
       /\ \A r \in {x \in Responses : IsProviderError(x)} :
             sentText # ask_mukuu(lastReq, r)

\* a reply was sent for an item after an earlier item's completion call had
\* ended without a send call
C11_Witness ==
    /\ pc = "mark" /\ lastSend = "ok"
    /\ sentText = <<"o", "k">>
    /\ \E id \in Ids : genCalls[id] = 1 /\ sendCalls[id] = 0 /\ id \in processed

C13_SaveFailureContained ==
    [][(pc \in {"save", "dump"}) =>
          /\ pc' \in {"dump", "thread"}
          /\ cycStatus' = cycStatus]_vars

\* C14: for an eligible unseen item, whenever the provider answers with
\* status 200 and content t that is not empty once stripped, a send call with
\* text t is made, whatever t begins with.
C14_SuccessDispatched ==
    (pc = "mark" /\ lastGen = "ok" /\ Strip(lastResp.content) # <<>>) =>
       (lastSend # "none" /\ sentText = Strip(lastResp.content))

\* C15: a completion whose content is empty once stripped leads to no send
\* call, and cl.direct_send is never handed an empty text.
C15_EmptyCompletionNotSent ==
    /\ (lastSend # "none") => (sentText # <<>>)
    /\ (pc = "mark" /\ lastGen = "ok" /\ Strip(lastResp.content) = <<>>) =>
          (lastSend = "none")

\* C16: a send call that fails follows a completion that succeeded and is the
\* only completion call and the only send call made for the item so far; the
\* item is then added to processed and the loop goes on with the next item of
\* the conversation; when the loop over the conversation's items ends every
\* identified item of it is in processed; and no item ever gets a second
\* completion call or a second send call in the run.
C16_SendFailureMarked ==
    /\ [](lastSend = "fail" =>
            /\ pc = "mark" /\ lastGen = "ok"
            /\ genCalls[curId] = 1 /\ sendCalls[curId] = 1)
    /\ [][(lastSend = "fail" /\ pc = "mark") =>
            /\ processed' = processed \cup {curId}
            /\ pc' = "item" /\ iIdx' = iIdx + 1
            /\ items' = items /\ tIdx' = tIdx]_vars
    /\ [](pc = "save" => \A it \in Identified(items) : msg_id_of(it) \in processed)
    /\ [](\A id \in Ids : genCalls[id] <= 1 /\ sendCalls[id] <= 1)

\* the send call has failed for an item that is not the last of its
\* conversation, in the second cycle of the run
C16_Witness ==
    /\ pc = "mark" /\ lastSend = "fail" /\ lastGen = "ok"
    /\ iIdx < Len(items) /\ cycle = 2

\* the ids in memory that a load of the file would not return
Unflushed == processed \ load_processed(file)

\* C17: at every point of a run the ids in memory that are not in the file all
\* belong to the conversation being processed, and whenever the loop is
\* between conversations, asleep after a cycle or about to start one, the file
\* holds exactly the in-memory set.
C17_UnflushedOneConversation ==
    /\ (pc \in {"item", "gen", "send", "mark", "save", "dump"}) =>
          (Unflushed \subseteq
              {msg_id_of(it) : it \in Identified(WorldItems(curThread))})
    /\ (pc \in {"thread", "sleep", "poll"}) =>
          (load_processed(file) = processed)

\* the participant count a thread reports: participants_count when it is
\* there, else the length of users, 0 when the thread carries neither
Reported(thread) ==
    IF thread.participants_count # 0 THEN thread.participants_count ELSE thread.users

\* C18: a conversation that reports more than 2 participants is handled as a
\* group (the decision is to reply exactly when the text names the handle), and
\* one that reports at most 2 participants, or that carries no participant
\* data at all (no count, no users, no group type), is handled as direct (the
\* decision is always to reply).
C18_GroupByParticipantCount ==
    (cOut # "idle") =>
       /\ (Reported(cThread) > 2) =>
             ((cOut = "reply") <=> RefContains(cText))
       /\ (Reported(cThread) \in 1..2
             \/ (Reported(cThread) = 0 /\ cThread.thread_type # "group")) =>
             (cOut = "reply")

\* C19: the process stops only at the top of a cycle or during the poll
\* sleep: never inside a cycle, so never between the send call for an item and
\* the addition of its id to processed, and never before the save of a
\* conversation whose items were processed.
C19_StopsOnlyBetweenCycles ==
    (pc = "down") => (stoppedAt \in {"poll", "sleep"})

\* C20: an item without an identifier is passed over in every cycle: the loop
\* moves to the next item with processed, the file and every call count
\* unchanged, and no completion call, send call or addition is ever reached
\* for it; a conversation without an identifier is passed over the same way
\* and its items are never fetched; 0, which stands for the missing
\* identifier, never enters processed; and the other items and conversations
\* are processed all the same: when the loop over a conversation's items ends
\* every identified item of it is in processed, and after a completed cycle so
\* is every identified item of every identified conversation of the scan.
C20_NoIdSkipped ==
    /\ [](0 \notin processed)
    /\ []((pc \in {"item", "gen", "send", "mark", "save", "dump"}) =>
            thread_id_of(curThread) # 0)
    /\ []((pc \in {"gen", "send", "mark"}) => curId # 0)
    /\ [][(pc = "item" /\ iIdx <= Len(items) /\ curId = 0) =>
            /\ pc' = "item" /\ iIdx' = iIdx + 1
            /\ items' = items /\ tIdx' = tIdx
            /\ processed' = processed /\ file' = file
            /\ evalCalls' = evalCalls /\ genCalls' = genCalls
            /\ sendCalls' = sendCalls]_vars
    /\ [][(pc = "thread" /\ tIdx <= Len(threads) /\ thread_id_of(curThread) = 0) =>
            /\ pc' = "thread" /\ tIdx' = tIdx + 1
            /\ processed' = processed /\ file' = file
            /\ evalCalls' = evalCalls /\ genCalls' = genCalls
            /\ sendCalls' = sendCalls]_vars
    /\ [](pc = "save" => \A it \in Identified(items) : msg_id_of(it) \in processed)
    /\ []((pc = "sleep" /\ cycStatus = "done") =>
            \A p \in ScannedItems(threads) : msg_id_of(p[2]) \in processed)

\* the loop over a conversation with an item without identifier in the middle
\* has ended, behind a conversation without identifier, and the item after the
\* one without identifier has been replied to
C20_Witness ==
    /\ pc = "save" /\ items = GroupItems
    /\ thread_id_of(threads[1]) = 0 /\ tIdx > 1
    /\ msg_id_of(ItemMention) \in processed
    /\ sendCalls[msg_id_of(ItemMention)] = 1

====
